---- MODULE Spec2Model ----
(***************************************************************************)
(* CoordinateMapCPU (src/src/coordinate_map_cpu.hpp): a hash map from      *)
(* integer coordinates to row indices whose keys are views into a          *)
(* preallocated coordinate storage, with batch insertion, batch lookup and *)
(* the parallel construction of kernel maps.                               *)
(***************************************************************************)
EXTENDS Integers, Sequences, FiniteSets, TLC

\* coordinate_size of the modelled maps: a batch component and two spatial ones.
m_coordinate_size == 3

\* Spatial components of the inserted coordinates range over 0..MaxCoord.
MaxCoord == 2
\* Longest coordinate batch handed to insert / insert_and_map.
MaxLen == 4
\* Longest batch and longest query sequence of the lookup runs.
MaxQuery == 3
\* Largest number_of_coordinates handed to the constructor.
MaxCap == 2

Min(a, b) == IF a < b THEN a ELSE b

\* A coordinate is a tuple of m_coordinate_size integers.
MkCoord(b, x, y) == <<b, x, y>>

\* The inserted and queried coordinates: batch index 0, on the diagonal.
Coords == {MkCoord(0, x, x) : x \in 0..MaxCoord}

BatchesOf(S, n) == UNION {[1..k -> S] : k \in 0..n}

\* Content of a storage row that was never written.
Uninit == <<>>

(***************************************************************************)
(* The map object: m_capacity rows of storage, and the table m_map whose   *)
(* entries are pairs (key, mapped value).  A key is a view: it holds the   *)
(* storage row it points at (ptr), never the components themselves.        *)
(***************************************************************************)
VARIABLES m_capacity, m_coordinates, m_map, m_tensor_stride, aborted, last, found

\* The state of a kernel_map / stride_map call: the other map, the call, the
\* bucket array the workers scan, one worker per chunk, and the shared buffers.
VARIABLES out_coordinate_map, call, table, workers, in_maps, out_maps, num_used

\* The map a derivation builds and returns, and the destination buffer of
\* copy_coordinates.
VARIABLES stride_map, dst_coordinate

mapvars == <<m_capacity, m_coordinates, m_map, m_tensor_stride, aborted, last, found>>

kvars == <<out_coordinate_map, call, table, workers, in_maps, out_maps, num_used,
           stride_map, dst_coordinate>>

vars == <<m_capacity, m_coordinates, m_map, m_tensor_stride, aborted, last, found,
          out_coordinate_map, call, table, workers, in_maps, out_maps, num_used,
          stride_map, dst_coordinate>>

\* The constructor's default argument stride = {1}: no downsampling on any axis.
default_stride == <<1, 1>>

\* The object the constructor leaves: storage for n rows, an empty table and
\* the tensor stride handed in.
CoordinateMapCPU(n, stride) ==
  [m_capacity |-> n,
   m_coordinates |-> [r \in 0..(n - 1) |-> Uninit],
   m_map |-> {},
   m_tensor_stride |-> stride]

\* base_type::allocate(N): fresh storage of N rows.
allocate(st, N) ==
  [st EXCEPT !.m_capacity = N, !.m_coordinates = [r \in 0..(N - 1) |-> Uninit]]

\* The components a key view reads.
key_data(st, e) == st.m_coordinates[e.ptr]

\* key_equal: two views are equal when their components are.
key_equal(st, p, q) == st.m_coordinates[p] = st.m_coordinates[q]

\* m_map.find(key): the entries whose key equals key ({} is end()).
map_find(st, key) == {e \in st.m_map : key_data(st, e) = key}

\* m_map.insert(value_type(view of row ptr, val)): a new entry unless an
\* entry with an equal key exists, which is then returned untouched.
map_insert(st, ptr, val) ==
  LET hit == {e \in st.m_map : key_equal(st, e.ptr, ptr)}
      new == [ptr |-> ptr, second |-> val]
  IN IF hit = {}
     THEN [st |-> [st EXCEPT !.m_map = @ \cup {new}], first |-> new, second |-> TRUE]
     ELSE [st |-> st, first |-> CHOOSE e \in hit : TRUE, second |-> FALSE]

\* size()
size(st) == Cardinality(st.m_map)

\* insert(key, val) with the capacity check one too wide.
insert_key_off_by_one(st, key, val) ==
  IF ~(val <= st.m_capacity)
  THEN [st |-> st, aborted |-> TRUE, first |-> [ptr |-> val, second |-> val], second |-> FALSE]
  ELSE LET r == map_insert([st EXCEPT !.m_coordinates = (val :> key) @@ @], val, val)
       IN [st |-> r.st, aborted |-> FALSE, first |-> r.first, second |-> r.second]

\* insert(key, val) on a table that assigns the offered value to an existing key.
insert_key_assign(st, key, val) ==
  IF ~(val < st.m_capacity)
  THEN [st |-> st, aborted |-> TRUE, first |-> [ptr |-> val, second |-> val], second |-> FALSE]
  ELSE LET copied == [st EXCEPT !.m_coordinates[val] = key]
           hit == {e \in copied.m_map : key_equal(copied, e.ptr, val)}
           new == [ptr |-> val, second |-> val]
       IN [st |-> [copied EXCEPT !.m_map = (@ \ hit) \cup {new}],
           aborted |-> FALSE, first |-> new, second |-> hit = {}]

\* insert(key, val) with keys compared by address instead of by components.
insert_key_by_address(st, key, val) ==
  IF ~(val < st.m_capacity)
  THEN [st |-> st, aborted |-> TRUE, first |-> [ptr |-> val, second |-> val], second |-> FALSE]
  ELSE LET copied == [st EXCEPT !.m_coordinates[val] = key]
           hit == {e \in copied.m_map : e.ptr = val}
           new == [ptr |-> val, second |-> val]
       IN IF hit = {}
          THEN [st |-> [copied EXCEPT !.m_map = @ \cup {new}],
                aborted |-> FALSE, first |-> new, second |-> TRUE]
          ELSE [st |-> copied, aborted |-> FALSE,
                first |-> CHOOSE e \in hit : TRUE, second |-> FALSE]

\* The private insert(key, val): the capacity assertion, then the copy of the
\* components into storage row val, then the table insert of a view of that row.
insert_key(st, key, val) ==
  IF ~(val < st.m_capacity)
  THEN [st |-> st, aborted |-> TRUE, first |-> [ptr |-> val, second |-> val], second |-> FALSE]
  ELSE LET copied == [st EXCEPT !.m_coordinates[val] = key]
           r == map_insert(copied, val, val)
       IN [st |-> r.st, aborted |-> FALSE, first |-> r.first, second |-> r.second]

\* The loop state of the batch operations; trace records, per input position,
\* the value offered, result.second and result.first->second.
LoopState(st) ==
  [st |-> st, aborted |-> FALSE, value |-> 0, row_index |-> 0,
   mapping |-> <<>>, inverse_mapping |-> <<>>, trace |-> <<>>]

Observed(ls, r) ==
  Append(ls.trace, [offered |-> ls.value, inserted |-> r.second, row |-> r.first.second])

\* One iteration of insert(begin, end): insert(key_type(key), value); ++value.
insert_body(ls, key) ==
  LET r == insert_key(ls.st, key, ls.value)
  IN IF r.aborted
     THEN [ls EXCEPT !.aborted = TRUE]
     ELSE [ls EXCEPT !.st = r.st, !.value = @ + 1, !.row_index = @ + 1,
                     !.trace = Observed(ls, r)]

\* value += remap ? !result.second : 1
next_value_negated(remap, value, inserted) ==
  IF remap THEN value + (IF inserted THEN 0 ELSE 1) ELSE value + 1

\* value += remap ? result.second : 1, with the two branches exchanged.
next_value_swapped(remap, value, inserted) ==
  IF remap THEN value + 1 ELSE value + (IF inserted THEN 1 ELSE 0)

\* value += remap ? result.second : 1
next_value(remap, value, inserted) ==
  IF remap THEN value + (IF inserted THEN 1 ELSE 0) ELSE value + 1

\* One iteration of insert_and_map that records value for a duplicate too.
insert_and_map_body_no_lookup(remap, ls, key) ==
  LET r == insert_key(ls.st, key, ls.value)
  IN IF r.aborted
     THEN [ls EXCEPT !.aborted = TRUE]
     ELSE [ls EXCEPT !.st = r.st,
                     !.mapping = IF r.second THEN Append(@, ls.row_index) ELSE @,
                     !.inverse_mapping = Append(@, ls.value),
                     !.value = next_value(remap, ls.value, r.second),
                     !.row_index = @ + 1,
                     !.trace = Observed(ls, r)]

\* One iteration of insert_and_map<remap>.
insert_and_map_body(remap, ls, key) ==
  LET r == insert_key(ls.st, key, ls.value)
  IN IF r.aborted
     THEN [ls EXCEPT !.aborted = TRUE]
     ELSE [ls EXCEPT !.st = r.st,
                     !.mapping = IF r.second THEN Append(@, ls.row_index) ELSE @,
                     !.inverse_mapping =
                        IF r.second THEN Append(@, ls.value) ELSE Append(@, r.first.second),
                     !.value = next_value(remap, ls.value, r.second),
                     !.row_index = @ + 1,
                     !.trace = Observed(ls, r)]

RECURSIVE insert_loop(_, _, _)
insert_loop(ls, batch, i) ==
  IF i > Len(batch) \/ ls.aborted
  THEN ls
  ELSE insert_loop(insert_body(ls, batch[i]), batch, i + 1)

RECURSIVE insert_and_map_loop(_, _, _, _)
insert_and_map_loop(remap, ls, batch, i) ==
  IF i > Len(batch) \/ ls.aborted
  THEN ls
  ELSE insert_and_map_loop(remap, insert_and_map_body(remap, ls, batch[i]), batch, i + 1)

\* insert(coordinate_begin, coordinate_end)
insert(st, batch) == insert_loop(LoopState(allocate(st, Len(batch))), batch, 1)

\* insert_and_map<remap>(coordinate_begin, coordinate_end)
insert_and_map(remap, st, batch) ==
  insert_and_map_loop(remap, LoopState(allocate(st, Len(batch))), batch, 1)


\* One iteration of find that records the position counted from 1.
find_body_from_one(st, keys, i, res) ==
  LET query_iter == map_find(st, keys[i])
  IN IF query_iter # {}
     THEN [valid_query_index |-> Append(res.valid_query_index, i),
           query_result |-> Append(res.query_result, (CHOOSE e \in query_iter : TRUE).second)]
     ELSE res

\* One iteration of find(key_first, key_last); keys[i] is *key_curr and
\* i - 1 is key_curr - key_first.
find_body(st, keys, i, res) ==
  LET query_iter == map_find(st, keys[i])
  IN IF query_iter # {}
     THEN [valid_query_index |-> Append(res.valid_query_index, i - 1),
           query_result |-> Append(res.query_result, (CHOOSE e \in query_iter : TRUE).second)]
     ELSE res

RECURSIVE find_loop(_, _, _, _)
find_loop(st, keys, i, res) ==
  IF i > Len(keys)
  THEN res
  ELSE find_loop(st, keys, i + 1, find_body(st, keys, i, res))

\* find(key_first, key_last) with the search-range assertion made strict.
find_strict_range(st, keys) ==
  IF ~(Len(keys) < st.m_capacity)
  THEN [aborted |-> TRUE, valid_query_index |-> <<>>, query_result |-> <<>>]
  ELSE LET res == find_loop(st, keys, 1, [valid_query_index |-> <<>>, query_result |-> <<>>])
       IN [aborted |-> FALSE, valid_query_index |-> res.valid_query_index,
           query_result |-> res.query_result]

\* find(key_first, key_last): the search-range assertion, then the scan.
find(st, keys) ==
  IF ~(Len(keys) <= st.m_capacity)
  THEN [aborted |-> TRUE, valid_query_index |-> <<>>, query_result |-> <<>>]
  ELSE LET res == find_loop(st, keys, 1, [valid_query_index |-> <<>>, query_result |-> <<>>])
       IN [aborted |-> FALSE, valid_query_index |-> res.valid_query_index,
           query_result |-> res.query_result]

(***************************************************************************)
(* The state machine of one map object.                                    *)
(***************************************************************************)
This == [m_capacity |-> m_capacity, m_coordinates |-> m_coordinates, m_map |-> m_map,
         m_tensor_stride |-> m_tensor_stride]

SetThis(st) ==
  /\ m_capacity' = st.m_capacity
  /\ m_coordinates' = st.m_coordinates
  /\ m_map' = st.m_map
  /\ m_tensor_stride' = st.m_tensor_stride

NoCall == [op |-> "none", batch |-> <<>>, mapping |-> <<>>,
           inverse_mapping |-> <<>>, trace |-> <<>>]

\* found holds what the most recent call returned when that call was a find.
NoFind == [called |-> FALSE, aborted |-> FALSE, keys |-> <<>>,
           valid_query_index |-> <<>>, query_result |-> <<>>]

Call(op, batch, ls) ==
  [op |-> op, batch |-> batch, mapping |-> ls.mapping,
   inverse_mapping |-> ls.inverse_mapping, trace |-> ls.trace]

\* No kernel_map or stride_map call is under way.
NoKernelCall == [op |-> "none", status |-> "idle"]

KIdle ==
  /\ out_coordinate_map = CoordinateMapCPU(0, default_stride)
  /\ call = NoKernelCall
  /\ table = <<>>
  /\ workers = <<>>
  /\ in_maps = <<>>
  /\ out_maps = <<>>
  /\ num_used = <<>>
  /\ stride_map = CoordinateMapCPU(0, default_stride)
  /\ dst_coordinate = <<>>

Init ==
  /\ \E n \in 0..MaxCap : /\ m_capacity = n
                          /\ m_coordinates = CoordinateMapCPU(n, default_stride).m_coordinates
  /\ m_map = {}
  /\ m_tensor_stride = default_stride
  /\ aborted = FALSE
  /\ last = NoCall
  /\ found = NoFind
  /\ KIdle

\* The map is filled by one insertion call after its construction, before
\* anything is derived from it.
Fresh == ~aborted /\ last.op = "none" /\ call.status = "idle"

Insert(batch) ==
  /\ Fresh
  /\ LET ls == insert(This, batch)
     IN /\ SetThis(ls.st)
        /\ aborted' = ls.aborted
        /\ last' = Call("insert", batch, ls)
  /\ found' = NoFind
  /\ UNCHANGED kvars

InsertAndMapRemap(batch) ==
  /\ Fresh
  /\ LET ls == insert_and_map(TRUE, This, batch)
     IN /\ SetThis(ls.st)
        /\ aborted' = ls.aborted
        /\ last' = Call("insert_and_map<true>", batch, ls)
  /\ found' = NoFind
  /\ UNCHANGED kvars

InsertAndMapNoRemap(batch) ==
  /\ Fresh
  /\ LET ls == insert_and_map(FALSE, This, batch)
     IN /\ SetThis(ls.st)
        /\ aborted' = ls.aborted
        /\ last' = Call("insert_and_map<false>", batch, ls)
  /\ found' = NoFind
  /\ UNCHANGED kvars

\* A direct call of insert(key, row_index), as a capacity death test makes it.
InsertKey(key, val) ==
  /\ Fresh
  /\ LET r == insert_key(This, key, val)
     IN /\ SetThis(r.st)
        /\ aborted' = r.aborted
        /\ last' = [NoCall EXCEPT !.op = "insert(key, val)", !.batch = <<key>>,
                                  !.trace = <<[offered |-> val, inserted |-> r.second,
                                               row |-> r.first.second]>>]
  /\ found' = NoFind
  /\ UNCHANGED kvars

Next ==
  \/ \E b \in BatchesOf(Coords, MaxLen) : Insert(b)
  \/ \E b \in BatchesOf(Coords, MaxLen) : InsertAndMapRemap(b)
  \/ \E b \in BatchesOf(Coords, MaxLen) : InsertAndMapNoRemap(b)
  \/ \E key \in Coords, val \in 0..(MaxCap + 1) : InsertKey(key, val)

Spec == Init /\ [][Next]_vars

\* A batch lookup on the map as it stands, fresh or filled; a run makes one,
\* which any later lookup on the same map would repeat.
Find(keys) ==
  /\ ~aborted
  /\ ~found.called
  /\ LET r == find(This, keys)
     IN /\ aborted' = r.aborted
        /\ found' = [called |-> TRUE, aborted |-> r.aborted, keys |-> keys,
                     valid_query_index |-> r.valid_query_index,
                     query_result |-> r.query_result]
  /\ UNCHANGED <<m_capacity, m_coordinates, m_map, m_tensor_stride, last>>
  /\ UNCHANGED kvars

\* The lookup runs: a map, fresh or filled by insert_and_map, is queried.
FindNext ==
  \/ \E b \in BatchesOf(Coords, MaxQuery) : InsertAndMapRemap(b)
  \/ \E b \in BatchesOf(Coords, MaxQuery) : InsertAndMapNoRemap(b)
  \/ \E keys \in BatchesOf(Coords, MaxQuery) : Find(keys)

FindSpec == Init /\ [][FindNext]_vars

(***************************************************************************)
(* kernel_map and stride_map: the chunks of a table's bucket range are     *)
(* scanned by workers that share the per-offset counters num_used and the  *)
(* pre-sized buffers in_maps and out_maps.                                 *)
(***************************************************************************)

\* Spatial x of the coordinates of the kernel runs ranges over 0..KMaxX.
KMaxX == 1
\* Largest value of omp_get_max_threads().
MaxThreads == 2

RowCoords == {MkCoord(0, x, 0) : x \in 0..KMaxX}

\* The batches the two maps of a kernel run are built from: every set of row
\* coordinates, in ascending order.
Ascending(X) ==
  CHOOSE b \in [1..Cardinality(X) -> X] : \A i, j \in 1..Cardinality(X) : i < j => b[i][2] < b[j][2]

KBatches == {Ascending(X) : X \in SUBSET RowCoords}

\* A buffer slot no worker has written.
Unwritten == -1

\* An empty bucket.
NoEntry == [ptr |-> -1, second |-> -1]

\* No position: a worker that has nothing left to do.
None == <<-1, -1>>

\* m_map.capacity(): the bucket range of a table reserved for m_capacity keys.
bucket_count(st) == st.m_capacity + 1

\* The bucket arrays a table may have: every entry in exactly one bucket.
Layouts(st) ==
  {t \in [0..(bucket_count(st) - 1) -> st.m_map \cup {NoEntry}] :
     \A e \in st.m_map : Cardinality({b \in DOMAIN t : t[b] = e}) = 1}

\* initialize_maps<...>(volume, n): volume buffers of n slots each.
initialize_maps(vol, n) == [k \in 0..(vol - 1) |-> [i \in 1..n |-> Unwritten]]

\* kernel.volume()
volume(kernel) == Len(kernel.offsets)

\* The k-th point of the region around center.
region_point(kernel, center, k) ==
  MkCoord(center[1], center[2] + kernel.offsets[k + 1][1],
          center[3] + kernel.offsets[k + 1][2])

\* The kernel regions of the runs: a single point, a window of three along x,
\* and a custom list of one offset.
Kernels ==
  {[region_type |-> "HYPER_CUBE", offsets |-> <<<<0, 0>>>>],
   [region_type |-> "HYPER_CUBE", offsets |-> <<<<-1, 0>>, <<0, 0>>, <<1, 0>>>>],
   [region_type |-> "CUSTOM", offsets |-> <<<<1, 0>>>>]}

\* detail::stride_coordinate: the spatial components floor-divided.
stride_coordinate(c, s) == MkCoord(c[1], c[2] \div s[1], c[3] \div s[2])

Strides == {<<1, 1>>, <<2, 2>>}

\* stride = (num_elements + N - 1) / N with N = 2 * omp_get_max_threads()
chunk_stride(C, T) == (C + 2 * T - 1) \div (2 * T)

\* N computed without rounding up.
chunk_count_floor(C, T) == C \div chunk_stride(C, T)

\* N = (num_elements + stride - 1) / stride
chunk_count(C, T) == (C + chunk_stride(C, T) - 1) \div chunk_stride(C, T)

\* The buckets a walk from begin(stride * n) visits when nothing stops it
\* before the end of the table.
chunk_buckets_to_end(C, stride, n) == {b \in 0..(C - 1) : b >= stride * n}

\* The buckets begin(stride * n) walks while num_steps() < min(stride, C - n * stride).
chunk_buckets(C, stride, n) ==
  {b \in 0..(C - 1) : b >= stride * n /\ b - stride * n < Min(stride, C - n * stride)}

\* Positions <<bucket, kernel_ind>> in the order a worker visits them.
Before(p, q) == p[1] < q[1] \/ (p[1] = q[1] /\ p[2] < q[2])

\* The first position of S, None when there is none.
first_of(S) == IF S = {} THEN None ELSE CHOOSE p \in S : \A q \in S : q = p \/ Before(p, q)

\* The fast path taken for every region of volume 1, a custom one included.
is_fast_path_any_region(kernel) == volume(kernel) = 1

\* kernel.region_type() != RegionType::CUSTOM && kernel_volume == 1
is_fast_path(kernel) == kernel.region_type # "CUSTOM" /\ volume(kernel) = 1

\* The point looked up in the input map for bucket b and offset k: the output
\* coordinate itself on the fast path, the region's k-th point otherwise.
kernel_point(out, tbl, c, b, k) ==
  IF c.fast
  THEN key_data(out, tbl[b])
  ELSE region_point(c.kernel, key_data(out, tbl[b]), k)

\* The positions of chunk n at which kernel_map finds the point in the input map.
kernel_hits(st, out, tbl, c, n) ==
  {p \in chunk_buckets(c.C, c.stride, n) \X (0..(c.volume - 1)) :
     /\ tbl[p[1]] # NoEntry
     /\ map_find(st, kernel_point(out, tbl, c, p[1], p[2])) # {}}

\* The positions of chunk n stride_map visits: every live bucket.
stride_steps(tbl, c, n) ==
  {p \in chunk_buckets(c.C, c.stride, n) \X {0} : tbl[p[1]] # NoEntry}

\* A worker at position at; curr_index_begin is its reserved slot.
Worker(at) ==
  [at |-> at, phase |-> IF at = None THEN "done" ELSE "reserve",
   started |-> FALSE, curr_index_begin |-> 0]

\* The counter is read and the increment is lost.
atomic_capture_lost_increment(used, k) ==
  [curr_index_begin |-> used[k], num_used |-> used]

\* The captured value is the counter after the increment.
atomic_capture_after(used, k) ==
  [curr_index_begin |-> used[k] + 1, num_used |-> [used EXCEPT ![k] = @ + 1]]

\* omp atomic capture { curr_index_begin = num_used[k]; num_used[k] += 1; }
atomic_capture(used, k) ==
  [curr_index_begin |-> used[k], num_used |-> [used EXCEPT ![k] = @ + 1]]

\* vector::resize(max_num) of a buffer holding at least max_num slots.
resize(buf, max_num) == SubSeq(buf, 1, max_num)

\* At most omp_get_max_threads() chunks are under way at any time.
CanRun(n) ==
  \/ workers[n].started
  \/ Cardinality({m \in DOMAIN workers :
                    workers[m].started /\ workers[m].phase # "done"}) < call.threads

Running(op) == call.op = op /\ call.status = "running"

\* The entry of kernel_map: sizes, buffers, counters and chunks.
KernelMapBegin(kernel, T, tbl) ==
  /\ ~aborted
  /\ call.status = "idle"
  /\ tbl \in Layouts(out_coordinate_map)
  /\ LET out_size == size(out_coordinate_map)
         kernel_volume == volume(kernel)
         C == bucket_count(out_coordinate_map)
         c == [op |-> "kernel_map", status |-> "running", threads |-> T,
               kernel |-> kernel, out_tensor_stride |-> <<>>,
               fast |-> is_fast_path(kernel),
               volume |-> kernel_volume, C |-> C,
               stride |-> chunk_stride(C, T), N |-> chunk_count(C, T)]
     IN /\ call' = c
        /\ table' = tbl
        /\ in_maps' = initialize_maps(kernel_volume, out_size)
        /\ out_maps' = initialize_maps(kernel_volume, out_size)
        /\ num_used' = [k \in 0..(kernel_volume - 1) |-> 0]
        /\ workers' = [n \in 0..(c.N - 1) |->
                         Worker(first_of(kernel_hits(This, out_coordinate_map, tbl, c, n)))]
  /\ UNCHANGED <<mapvars, out_coordinate_map, stride_map, dst_coordinate>>

\* A worker of kernel_map reserves the next slot of the offset it has hit.
KernelMapReserve(n) ==
  /\ Running("kernel_map")
  /\ workers[n].phase = "reserve"
  /\ CanRun(n)
  /\ LET r == atomic_capture(num_used, workers[n].at[2])
     IN /\ num_used' = r.num_used
        /\ workers' = [workers EXCEPT ![n].phase = "write", ![n].started = TRUE,
                                      ![n].curr_index_begin = r.curr_index_begin]
  /\ UNCHANGED <<mapvars, out_coordinate_map, stride_map, dst_coordinate,
                 call, table, in_maps, out_maps>>

\* It writes the pair into the slot and walks on to its next hit.
KernelMapWrite(n) ==
  /\ Running("kernel_map")
  /\ workers[n].phase = "write"
  /\ LET at == workers[n].at
         slot == workers[n].curr_index_begin + 1
         iter_out == table[at[1]]
         iter_in == CHOOSE e \in map_find(This,
                       kernel_point(out_coordinate_map, table, call, at[1], at[2])) : TRUE
         rest == {p \in kernel_hits(This, out_coordinate_map, table, call, n) : Before(at, p)}
     IN /\ in_maps' = [in_maps EXCEPT ![at[2]][slot] = iter_in.second]
        /\ out_maps' = [out_maps EXCEPT ![at[2]][slot] = iter_out.second]
        /\ workers' = [workers EXCEPT ![n] = [Worker(first_of(rest)) EXCEPT !.started = TRUE]]
  /\ UNCHANGED <<mapvars, out_coordinate_map, stride_map, dst_coordinate,
                 call, table, num_used>>

\* The buffers are cut and returned without waiting for the workers.
KernelMapReturnEarly ==
  /\ Running("kernel_map")
  /\ in_maps' = [i \in DOMAIN in_maps |-> resize(in_maps[i], num_used[i])]
  /\ out_maps' = [i \in DOMAIN out_maps |-> resize(out_maps[i], num_used[i])]
  /\ call' = [call EXCEPT !.status = "returned"]
  /\ UNCHANGED <<mapvars, out_coordinate_map, stride_map, dst_coordinate,
                 table, workers, num_used>>

\* After the parallel loop: every buffer is cut to its counter and returned.
KernelMapReturn ==
  /\ Running("kernel_map")
  /\ \A n \in DOMAIN workers : workers[n].phase = "done"
  /\ in_maps' = [i \in DOMAIN in_maps |-> resize(in_maps[i], num_used[i])]
  /\ out_maps' = [i \in DOMAIN out_maps |-> resize(out_maps[i], num_used[i])]
  /\ call' = [call EXCEPT !.status = "returned"]
  /\ UNCHANGED <<mapvars, out_coordinate_map, stride_map, dst_coordinate,
                 table, workers, num_used>>

\* The entry of stride_map: the size assertion, buffers, counter and chunks.
StrideMapBegin(out_tensor_stride, T, tbl) ==
  /\ ~aborted
  /\ call.status = "idle"
  /\ tbl \in Layouts(This)
  /\ LET in_size == size(This)
         C == bucket_count(This)
         c == [op |-> "stride_map", status |-> "running", threads |-> T,
               kernel |-> <<>>, out_tensor_stride |-> out_tensor_stride,
               fast |-> FALSE, volume |-> 1, C |-> C,
               stride |-> chunk_stride(C, T), N |-> chunk_count(C, T)]
     IN IF ~(in_size > size(out_coordinate_map))
        THEN /\ call' = [c EXCEPT !.status = "aborted"]
             /\ aborted' = TRUE
             /\ UNCHANGED <<table, workers, in_maps, out_maps, num_used>>
        ELSE /\ call' = c
             /\ aborted' = FALSE
             /\ table' = tbl
             /\ in_maps' = initialize_maps(1, in_size)
             /\ out_maps' = initialize_maps(1, in_size)
             /\ num_used' = [k \in {0} |-> 0]
             /\ workers' = [n \in 0..(c.N - 1) |-> Worker(first_of(stride_steps(tbl, c, n)))]
  /\ UNCHANGED <<m_capacity, m_coordinates, m_map, m_tensor_stride, last, found,
                 out_coordinate_map, stride_map, dst_coordinate>>

\* The strided counterpart of the input entry in bucket b, looked up in the
\* output map.
stride_lookup(b) ==
  map_find(out_coordinate_map,
           stride_coordinate(key_data(This, table[b]), call.out_tensor_stride))

\* A worker of stride_map that passes over an input entry without a counterpart.
StrideMapReserveUnchecked(n) ==
  /\ Running("stride_map")
  /\ workers[n].phase = "reserve"
  /\ CanRun(n)
  /\ IF stride_lookup(workers[n].at[1]) = {}
     THEN LET rest == {p \in stride_steps(table, call, n) : Before(workers[n].at, p)}
          IN /\ workers' = [workers EXCEPT
                              ![n] = [Worker(first_of(rest)) EXCEPT !.started = TRUE]]
             /\ UNCHANGED <<call, aborted, num_used>>
     ELSE LET r == atomic_capture(num_used, 0)
          IN /\ num_used' = r.num_used
             /\ workers' = [workers EXCEPT ![n].phase = "write", ![n].started = TRUE,
                                           ![n].curr_index_begin = r.curr_index_begin]
             /\ UNCHANGED <<call, aborted>>
  /\ UNCHANGED <<m_capacity, m_coordinates, m_map, m_tensor_stride, last, found,
                 out_coordinate_map, stride_map, dst_coordinate,
                 table, in_maps, out_maps>>

\* A worker of stride_map asserts that the counterpart exists and reserves a slot.
StrideMapReserve(n) ==
  /\ Running("stride_map")
  /\ workers[n].phase = "reserve"
  /\ CanRun(n)
  /\ IF stride_lookup(workers[n].at[1]) = {}
     THEN /\ call' = [call EXCEPT !.status = "aborted"]
          /\ aborted' = TRUE
          /\ UNCHANGED <<workers, num_used>>
     ELSE LET r == atomic_capture(num_used, 0)
          IN /\ num_used' = r.num_used
             /\ workers' = [workers EXCEPT ![n].phase = "write", ![n].started = TRUE,
                                           ![n].curr_index_begin = r.curr_index_begin]
             /\ UNCHANGED <<call, aborted>>
  /\ UNCHANGED <<m_capacity, m_coordinates, m_map, m_tensor_stride, last, found,
                 out_coordinate_map, stride_map, dst_coordinate,
                 table, in_maps, out_maps>>

StrideMapWrite(n) ==
  /\ Running("stride_map")
  /\ workers[n].phase = "write"
  /\ LET at == workers[n].at
         slot == workers[n].curr_index_begin + 1
         iter_in == table[at[1]]
         iter_out == CHOOSE e \in stride_lookup(at[1]) : TRUE
         rest == {p \in stride_steps(table, call, n) : Before(at, p)}
     IN /\ in_maps' = [in_maps EXCEPT ![0][slot] = iter_in.second]
        /\ out_maps' = [out_maps EXCEPT ![0][slot] = iter_out.second]
        /\ workers' = [workers EXCEPT ![n] = [Worker(first_of(rest)) EXCEPT !.started = TRUE]]
  /\ UNCHANGED <<mapvars, out_coordinate_map, stride_map, dst_coordinate,
                 call, table, num_used>>

\* After the parallel loop the buffers are returned as they are.
StrideMapReturn ==
  /\ Running("stride_map")
  /\ \A n \in DOMAIN workers : workers[n].phase = "done"
  /\ call' = [call EXCEPT !.status = "returned"]
  /\ UNCHANGED <<mapvars, out_coordinate_map, stride_map, dst_coordinate,
                 table, workers, in_maps, out_maps, num_used>>

\* The kernel runs start from an input map built by insert_and_map<true> and
\* an output map built by insert(begin, end).
KInit ==
  /\ \E b \in KBatches :
       LET ls == insert_and_map(TRUE, CoordinateMapCPU(0, default_stride), b)
       IN /\ m_capacity = ls.st.m_capacity
          /\ m_coordinates = ls.st.m_coordinates
          /\ m_map = ls.st.m_map
          /\ m_tensor_stride = ls.st.m_tensor_stride
          /\ last = Call("insert_and_map<true>", b, ls)
  /\ \E b \in KBatches :
       out_coordinate_map = insert(CoordinateMapCPU(0, default_stride), b).st
  /\ aborted = FALSE
  /\ found = NoFind
  /\ call = NoKernelCall
  /\ table = <<>>
  /\ workers = <<>>
  /\ in_maps = <<>>
  /\ out_maps = <<>>
  /\ num_used = <<>>
  /\ stride_map = CoordinateMapCPU(0, default_stride)
  /\ dst_coordinate = <<>>

KNext ==
  \/ \E kernel \in Kernels, T \in 1..MaxThreads, tbl \in Layouts(out_coordinate_map) :
       KernelMapBegin(kernel, T, tbl)
  \/ \E n \in DOMAIN workers : KernelMapReserve(n)
  \/ \E n \in DOMAIN workers : KernelMapWrite(n)
  \/ KernelMapReturn
  \/ \E s \in Strides, T \in 1..MaxThreads, tbl \in Layouts(This) :
       StrideMapBegin(s, T, tbl)
  \/ \E n \in DOMAIN workers : StrideMapReserve(n)
  \/ \E n \in DOMAIN workers : StrideMapWrite(n)
  \/ StrideMapReturn

KernelSpec == KInit /\ [][KNext]_vars

\* The steps of a kernel_map call under way: those of its workers and, after
\* the implicit barrier of the parallel for, the truncation and the return.
KernelMapStep ==
  \/ \E n \in DOMAIN workers : KernelMapReserve(n)
  \/ \E n \in DOMAIN workers : KernelMapWrite(n)
  \/ KernelMapReturn

FanInNext ==
  \/ \E kernel \in Kernels, T \in 1..MaxThreads, tbl \in Layouts(out_coordinate_map) :
       KernelMapBegin(kernel, T, tbl)
  \/ KernelMapStep

\* The threads of the parallel for run on: a call under way never stops while
\* one of its steps can be taken.
FanInSpec == KInit /\ [][FanInNext]_vars /\ WF_vars(KernelMapStep)

\* Largest bucket count of the scans that only walk.
MaxBuckets == 8

\* The scan of kernel_map and stride_map on a table of C buckets with T
\* threads, every bucket holding an entry: table counts the visits of each.
ScanBegin(C, T) ==
  /\ call.status = "idle"
  /\ LET c == [op |-> "scan", status |-> "running", threads |-> T, C |-> C,
               stride |-> chunk_stride(C, T), N |-> chunk_count(C, T)]
     IN /\ call' = c
        /\ table' = [b \in 0..(C - 1) |-> 0]
        /\ workers' = [n \in 0..(c.N - 1) |->
                         Worker(first_of(chunk_buckets(C, c.stride, n) \X {0}))]
  /\ UNCHANGED <<mapvars, out_coordinate_map, in_maps, out_maps, num_used, stride_map,
                 dst_coordinate>>

\* A worker visits the bucket its iterator is at and steps on: ++iter.
ScanStep(n) ==
  /\ Running("scan")
  /\ workers[n].phase # "done"
  /\ CanRun(n)
  /\ LET at == workers[n].at
         rest == {p \in chunk_buckets(call.C, call.stride, n) \X {0} : Before(at, p)}
     IN /\ table' = [table EXCEPT ![at[1]] = @ + 1]
        /\ workers' = [workers EXCEPT
                         ![n] = [Worker(first_of(rest)) EXCEPT !.started = TRUE]]
  /\ UNCHANGED <<mapvars, out_coordinate_map, call, in_maps, out_maps, num_used,
                 stride_map, dst_coordinate>>

ScanEnd ==
  /\ Running("scan")
  /\ \A n \in DOMAIN workers : workers[n].phase = "done"
  /\ call' = [call EXCEPT !.status = "returned"]
  /\ UNCHANGED <<mapvars, out_coordinate_map, table, workers, in_maps, out_maps,
                 num_used, stride_map, dst_coordinate>>

ScanNext ==
  \/ \E C \in 1..MaxBuckets, T \in 1..MaxThreads : ScanBegin(C, T)
  \/ \E n \in DOMAIN workers : ScanStep(n)
  \/ ScanEnd

ScanSpec == Init /\ [][ScanNext]_vars


(***************************************************************************)
(* The derivations: stride, stride_region and copy_coordinates on a map    *)
(* filled by one insertion call.                                           *)
(***************************************************************************)

\* Longest batch the map of a derivation run is filled from.
DMaxLen == 3
\* Spatial x of the coordinates of the derivation runs ranges over 0..DMaxX.
DMaxX == 2

DCoords == {MkCoord(0, x, 0) : x \in 0..DMaxX}

\* The tensor strides handed to the constructor.
TensorStrides == {<<1, 1>>, <<2, 2>>}

\* The factors handed to stride; <<2>> has one component too few.
StrideFactors == Strides \cup {<<2>>}

\* detail::stride_tensor_stride: the per-axis product of tensor stride and factor.
stride_tensor_stride(tensor_stride, s) ==
  [i \in 1..Len(tensor_stride) |-> tensor_stride[i] * s[i]]

\* for (auto const &kv : m_map): the orders in which the buckets may hold the
\* entries, each entry once.
Orders(st) ==
  {o \in [1..size(st) -> st.m_map] : \A i, j \in 1..size(st) : o[i] = o[j] => i = j}

\* One iteration of stride that advances c for a duplicate too.
stride_body_every_row(ls, src, kv) ==
  LET dst == stride_coordinate(key_data(src, kv), ls.st.m_tensor_stride)
      result == insert_key(ls.st, dst, ls.value)
  IN IF result.aborted
     THEN [ls EXCEPT !.aborted = TRUE]
     ELSE [ls EXCEPT !.st = result.st, !.value = @ + 1, !.row_index = @ + 1,
                     !.trace = Observed(ls, result)]

\* One iteration of stride: the strided coordinate of kv.first under the new
\* map's tensor stride, stride_map.insert(strided_coordinate, c), c += result.second.
stride_body(ls, src, kv) ==
  LET dst == stride_coordinate(key_data(src, kv), ls.st.m_tensor_stride)
      result == insert_key(ls.st, dst, ls.value)
  IN IF result.aborted
     THEN [ls EXCEPT !.aborted = TRUE]
     ELSE [ls EXCEPT !.st = result.st,
                     !.value = @ + (IF result.second THEN 1 ELSE 0),
                     !.row_index = @ + 1,
                     !.trace = Observed(ls, result)]

RECURSIVE stride_loop(_, _, _, _)
stride_loop(ls, src, order, i) ==
  IF i > Len(order) \/ ls.aborted
  THEN ls
  ELSE stride_loop(stride_body(ls, src, order[i]), src, order, i + 1)

\* stride(stride): the length assertion, the new map of capacity size() and of
\* the multiplied tensor stride, then the loop over the entries.
stride(st, s, order) ==
  IF ~(Len(s) = m_coordinate_size - 1)
  THEN [LoopState(CoordinateMapCPU(0, default_stride)) EXCEPT !.aborted = TRUE]
  ELSE stride_loop(
         LoopState(CoordinateMapCPU(size(st), stride_tensor_stride(st.m_tensor_stride, s))),
         st, order, 1)

\* A derivation call that ran to its end in one step.
Derived(op, arg, ls, order) ==
  [op |-> op, status |-> IF ls.aborted THEN "aborted" ELSE "returned",
   arg |-> arg, order |-> order, trace |-> ls.trace]

Stride(s, order) ==
  /\ ~aborted
  /\ call.status = "idle"
  /\ order \in Orders(This)
  /\ LET ls == stride(This, s, order)
     IN /\ stride_map' = ls.st
        /\ aborted' = ls.aborted
        /\ call' = Derived("stride", s, ls, order)
  /\ UNCHANGED <<m_capacity, m_coordinates, m_map, m_tensor_stride, last, found,
                 out_coordinate_map, table, workers, in_maps, out_maps, num_used,
                 dst_coordinate>>

\* The kernels handed to stride_region; the last one is built for coordinates
\* of one spatial component.
DKernels == Kernels \cup {[region_type |-> "HYPER_CUBE", offsets |-> <<<<0>>>>]}

\* kernel.coordinate_size()
kernel_coordinate_size(kernel) == Len(kernel.offsets[1]) + 1

\* kernel.tensor_stride(): the regions of the runs are built for tensor stride one.
kernel_tensor_stride(kernel) == default_stride

\* The entry of stride_region: the kernel assertion, the new map of capacity
\* size() * kernel.volume(), and the iterator at m_map.begin().  pending holds
\* the entries the iterator has yet to reach, input the receiver as it was.
StrideRegionBegin(kernel) ==
  /\ ~aborted
  /\ call.status = "idle"
  /\ LET c == [op |-> "stride_region", status |-> "running", arg |-> kernel,
               input |-> This, pending |-> m_map, iter_in |-> NoEntry,
               center |-> <<>>, kernel_ind |-> 0]
     IN IF ~(kernel_coordinate_size(kernel) = m_coordinate_size)
        THEN /\ call' = [c EXCEPT !.status = "aborted"]
             /\ aborted' = TRUE
             /\ UNCHANGED <<stride_map, num_used>>
        ELSE /\ call' = c
             /\ aborted' = FALSE
             /\ stride_map' = CoordinateMapCPU(size(This) * volume(kernel),
                                               kernel_tensor_stride(kernel))
             /\ num_used' = [k \in {0} |-> 0]
  /\ UNCHANGED <<m_capacity, m_coordinates, m_map, m_tensor_stride, last, found,
                 out_coordinate_map, table, workers, in_maps, out_maps,
                 dst_coordinate>>

\* The iterator reaches an entry: set_bounds reads its coordinate.
StrideRegionNextEntry(e) ==
  /\ call.op = "stride_region"
  /\ call.status = "running"
  /\ call.iter_in = NoEntry
  /\ e \in call.pending
  /\ call' = [call EXCEPT !.iter_in = e, !.center = key_data(This, e),
                          !.kernel_ind = 0, !.pending = @ \ {e}]
  /\ UNCHANGED <<mapvars, out_coordinate_map, table, workers, in_maps, out_maps,
                 num_used, stride_map, dst_coordinate>>

\* One point of the region: out_mmap.find(point) in the new map, and on a miss
\* insert(point, num_used), which is the receiver's insert, and ++num_used.
\* An entry put into the receiver's table while it is being walked lands before
\* or after the iterator: ahead tells which.  An entry whose row the copy
\* overwrites stays where its old hash put it, so the table may take the new
\* view as a second entry, which the iterator may reach as well.
StrideRegionPoint(ahead) ==
  /\ call.op = "stride_region"
  /\ call.status = "running"
  /\ call.iter_in # NoEntry
  /\ LET point == region_point(call.arg, call.center, call.kernel_ind)
         iter_out == map_find(stride_map, point)
         walked == [call EXCEPT
                      !.kernel_ind = @ + 1,
                      !.iter_in = IF call.kernel_ind + 1 = volume(call.arg)
                                  THEN NoEntry ELSE @]
     IN IF iter_out = {}
        THEN LET r == insert_key(This, point, num_used[0])
             IN IF r.aborted
                THEN /\ call' = [call EXCEPT !.status = "aborted"]
                     /\ aborted' = TRUE
                     /\ UNCHANGED <<m_capacity, m_coordinates, m_map, m_tensor_stride,
                                    num_used>>
                ELSE /\ SetThis(r.st)
                     /\ num_used' = [num_used EXCEPT ![0] = @ + 1]
                     /\ aborted' = FALSE
                     /\ call' = [walked EXCEPT
                                   !.pending =
                                      IF ahead /\ (r.second \/ r.first.ptr = num_used[0])
                                      THEN @ \cup {[ptr |-> num_used[0],
                                                    second |-> num_used[0]]}
                                      ELSE @]
        ELSE /\ call' = walked
             /\ UNCHANGED <<m_capacity, m_coordinates, m_map, m_tensor_stride,
                            aborted, num_used>>
  /\ UNCHANGED <<last, found, out_coordinate_map, table, workers, in_maps, out_maps,
                 stride_map, dst_coordinate>>

\* The iterator is at m_map.end(): return stride_map.
StrideRegionReturn ==
  /\ call.op = "stride_region"
  /\ call.status = "running"
  /\ call.iter_in = NoEntry
  /\ call.pending = {}
  /\ call' = [call EXCEPT !.status = "returned"]
  /\ UNCHANGED <<mapvars, out_coordinate_map, table, workers, in_maps, out_maps,
                 num_used, stride_map, dst_coordinate>>

\* What the destination buffer held before the call.
Old == <<"old">>

\* The destination buffer: one slot per storage row, with the data it holds
\* and the number of times copy_coordinates has written it.
Destination(st) == [r \in 0..(st.m_capacity - 1) |-> [data |-> Old, writes |-> 0]]

\* stride = (capacity + N - 1) / N with N = omp_get_max_threads()
copy_stride(C, T) == (C + T - 1) \div T

\* N = (capacity + stride - 1) / stride
copy_count(C, T) == (C + copy_stride(C, T) - 1) \div copy_stride(C, T)

\* The live buckets of chunk n.
copy_steps(tbl, c, n) ==
  {p \in chunk_buckets(c.C, c.stride, n) \X {0} : tbl[p[1]] # NoEntry}

CopyWorker(at) == [Worker(at) EXCEPT !.phase = IF at = None THEN "done" ELSE "copy"]

\* The entry of copy_coordinates: the chunks of the table's bucket range.
CopyCoordinatesBegin(T, tbl) ==
  /\ ~aborted
  /\ call.status = "idle"
  /\ tbl \in Layouts(This)
  /\ LET C == bucket_count(This)
         c == [op |-> "copy_coordinates", status |-> "running", threads |-> T,
               C |-> C, stride |-> copy_stride(C, T), N |-> copy_count(C, T)]
     IN /\ call' = c
        /\ table' = tbl
        /\ workers' = [n \in 0..(c.N - 1) |-> CopyWorker(first_of(copy_steps(tbl, c, n)))]
        /\ dst_coordinate' = Destination(This)
  /\ UNCHANGED <<mapvars, out_coordinate_map, in_maps, out_maps, num_used, stride_map>>

\* std::copy_n(it->first.data(), m_coordinate_size,
\*             dst_coordinate + m_coordinate_size * it->second); ++it
CopyCoordinatesCopy(n) ==
  /\ Running("copy_coordinates")
  /\ workers[n].phase = "copy"
  /\ CanRun(n)
  /\ LET at == workers[n].at
         it == table[at[1]]
         rest == {p \in copy_steps(table, call, n) : Before(at, p)}
     IN /\ dst_coordinate' = [dst_coordinate EXCEPT
                                ![it.second] = [data |-> key_data(This, it),
                                                writes |-> @.writes + 1]]
        /\ workers' = [workers EXCEPT
                         ![n] = [CopyWorker(first_of(rest)) EXCEPT !.started = TRUE]]
  /\ UNCHANGED <<mapvars, out_coordinate_map, call, table, in_maps, out_maps, num_used,
                 stride_map>>

\* The end of the parallel loop.
CopyCoordinatesReturn ==
  /\ Running("copy_coordinates")
  /\ \A n \in DOMAIN workers : workers[n].phase = "done"
  /\ call' = [call EXCEPT !.status = "returned"]
  /\ UNCHANGED <<mapvars, out_coordinate_map, table, workers, in_maps, out_maps,
                 num_used, stride_map, dst_coordinate>>

\* A derivation run starts from a map constructed empty with some tensor stride.
DInit ==
  /\ \E ts \in TensorStrides : m_tensor_stride = ts
  /\ m_capacity = 0
  /\ m_coordinates = CoordinateMapCPU(0, default_stride).m_coordinates
  /\ m_map = {}
  /\ aborted = FALSE
  /\ last = NoCall
  /\ found = NoFind
  /\ KIdle

DNext ==
  \/ \E b \in BatchesOf(DCoords, DMaxLen) : Insert(b)
  \/ \E b \in BatchesOf(DCoords, DMaxLen) : InsertAndMapRemap(b)
  \/ \E b \in BatchesOf(DCoords, DMaxLen) : InsertAndMapNoRemap(b)
  \/ \E s \in StrideFactors, order \in Orders(This) : Stride(s, order)

DeriveSpec == DInit /\ [][DNext]_vars

\* The stride_region runs: a map filled by insert_and_map<true> from a set of
\* row coordinates, then one call.
RegionNext ==
  \/ \E b \in KBatches : InsertAndMapRemap(b)
  \/ \E kernel \in DKernels : StrideRegionBegin(kernel)
  \/ \E e \in m_map : StrideRegionNextEntry(e)
  \/ \E ahead \in BOOLEAN : StrideRegionPoint(ahead)
  \/ StrideRegionReturn

RegionSpec == DInit /\ [][RegionNext]_vars

\* The copy_coordinates runs: a map filled by insert(begin, end), whose rows
\* have gaps where the batch repeats a coordinate, then one call.
CopyNext ==
  \/ \E b \in BatchesOf(RowCoords, DMaxLen) : Insert(b)
  \/ \E T \in 1..MaxThreads, tbl \in Layouts(This) : CopyCoordinatesBegin(T, tbl)
  \/ \E n \in DOMAIN workers : CopyCoordinatesCopy(n)
  \/ CopyCoordinatesReturn

CopySpec == Init /\ [][CopyNext]_vars

(***************************************************************************)
(* What the claims speak of.                                               *)
(***************************************************************************)
BatchOps == {"insert", "insert_and_map<true>", "insert_and_map<false>"}

Range(f) == {f[i] : i \in DOMAIN f}

\* The input positions (from 0) that hold the first occurrence of their value.
RECURSIVE FirstPositions(_, _)
FirstPositions(batch, i) ==
  IF i > Len(batch)
  THEN <<>>
  ELSE (IF \A j \in 1..(i - 1) : batch[j] # batch[i] THEN <<i - 1>> ELSE <<>>)
       \o FirstPositions(batch, i + 1)

\* The position (from 0) of the first occurrence of batch[i].
FirstOf(batch, i) == CHOOSE p \in 0..(i - 1) :
  batch[p + 1] = batch[i] /\ \A j \in 1..p : batch[j] # batch[i]

StrictlyIncreasing(s) == \A i, j \in DOMAIN s : i < j => s[i] < s[j]

Rows == {e.second : e \in m_map}

\* C1: after insert(begin, end) or insert_and_map<remap> of any batch into a
\* fresh map, the call has returned, size() is the number of distinct
\* coordinate values of the batch, the keys are exactly those values, and no
\* two entries hold equal coordinates.
C1_Uniqueness ==
  last.op \in BatchOps =>
    /\ ~aborted
    /\ size(This) = Cardinality(Range(last.batch))
    /\ {key_data(This, e) : e \in m_map} = Range(last.batch)
    /\ \A e1, e2 \in m_map : key_data(This, e1) = key_data(This, e2) => e1 = e2

C1_Witness ==
  /\ last.op \in BatchOps
  /\ Len(last.batch) = 3
  /\ last.batch[1] = last.batch[3]
  /\ last.batch[1] # last.batch[2]
  /\ size(This) = 2

\* The scenario of the specification: (0,0,0), (0,0,0), (0,2,2).
Scenario == <<MkCoord(0, 0, 0), MkCoord(0, 0, 0), MkCoord(0, 2, 2)>>

\* C2: insert_and_map<true> returns as mapping the strictly increasing list of
\* the first-occurrence positions, and an inverse_mapping of the batch's length
\* with values below size() such that input[mapping[inverse_mapping[i]]] is
\* input[i] for every i; the scenario gives size 2, [0,2] and [0,0,1].
C2_RoundTrip ==
  last.op = "insert_and_map<true>" =>
    LET in == last.batch
        mapping == last.mapping
        inverse_mapping == last.inverse_mapping
    IN /\ ~aborted
       /\ mapping = FirstPositions(in, 1)
       /\ StrictlyIncreasing(mapping)
       /\ Len(mapping) = Cardinality(Range(in))
       /\ Len(inverse_mapping) = Len(in)
       /\ \A i \in DOMAIN in :
            /\ inverse_mapping[i] \in 0..(size(This) - 1)
            /\ in[mapping[inverse_mapping[i] + 1] + 1] = in[i]
       /\ in = Scenario =>
            /\ size(This) = 2
            /\ mapping = <<0, 2>>
            /\ inverse_mapping = <<0, 0, 1>>

C2_Witness ==
  /\ last.op = "insert_and_map<true>"
  /\ last.batch = Scenario
  /\ last.inverse_mapping = <<0, 0, 1>>

\* C3: after insert(begin, end) the row indices stored in the map are exactly
\* 0 .. size()-1, each entry holding its rank among the inserted coordinates.
C3_DenseRows ==
  (last.op = "insert" /\ ~aborted) =>
    /\ Rows = 0..(size(This) - 1)
    /\ LET firsts == FirstPositions(last.batch, 1)
       IN \A k \in DOMAIN firsts :
            \E e \in m_map : /\ key_data(This, e) = last.batch[firsts[k] + 1]
                             /\ e.second = k - 1

\* C4: when a value stands at input positions p1 < p2, p1 the first of them,
\* the insertion at p1 succeeds, the one at p2 reports "not inserted" and
\* returns the entry with the row offered at p1, that entry still holds this
\* row when the call returns, and p2 is not in mapping.
C4_FirstSeen ==
  last.op \in BatchOps =>
    \A p1, p2 \in DOMAIN last.batch :
      (p1 < p2 /\ last.batch[p1] = last.batch[p2] /\ FirstOf(last.batch, p1) = p1 - 1) =>
        /\ Len(last.trace) = Len(last.batch)
        /\ last.trace[p1].inserted
        /\ ~last.trace[p2].inserted
        /\ last.trace[p2].row = last.trace[p1].offered
        /\ \E e \in m_map : /\ key_data(This, e) = last.batch[p1]
                            /\ e.second = last.trace[p1].offered
        /\ \A e \in m_map : key_data(This, e) = last.batch[p1]
                              => e.second = last.trace[p1].offered
        /\ (p2 - 1) \notin Range(last.mapping)

C4_Witness ==
  /\ last.op = "insert_and_map<true>"
  /\ Len(last.batch) = 3
  /\ last.batch[1] = last.batch[3]
  /\ last.batch[1] # last.batch[2]
  /\ ~last.trace[3].inserted
  /\ last.trace[3].row = 0

C8_CapacityFatality ==
  /\ [](\A e \in m_map : e.second < m_capacity)
  /\ [][(last'.op = "insert(key, val)" /\ last'.trace[1].offered >= m_capacity)
          => (aborted' /\ m_coordinates' = m_coordinates /\ m_map' = m_map
              /\ m_capacity' = m_capacity)]_vars

C8_Witness ==
  /\ last.op = "insert(key, val)"
  /\ last.trace[1].offered >= m_capacity
  /\ aborted
  /\ m_map = {}

\* The positions (from 0) of the queries whose key is in the map.
Present(keys) == {i - 1 : i \in {j \in DOMAIN keys : map_find(This, keys[j]) # {}}}

\* The row offered when the coordinate c was first inserted.
AssignedRow(c) ==
  last.trace[(CHOOSE p \in 0..(Len(last.batch) - 1) :
                last.batch[p + 1] = c /\ \A j \in 1..p : last.batch[j] # c) + 1].offered

\* What find returned is sound and aligned.
FindSound ==
  /\ Len(found.valid_query_index) = Len(found.query_result)
  /\ StrictlyIncreasing(found.valid_query_index)
  /\ Range(found.valid_query_index) = Present(found.keys)
  /\ \A j \in DOMAIN found.valid_query_index :
       LET key == found.keys[found.valid_query_index[j] + 1]
       IN /\ \E e \in m_map : key_data(This, e) = key /\ e.second = found.query_result[j]
          /\ found.query_result[j] = AssignedRow(key)

\* C6 as stated: for any map contents and any query sequence find returns
\* two aligned sequences naming exactly the present queries and their rows.
C6_FindAnyQuery ==
  found.called => (~found.aborted /\ FindSound)

\* C6 as amended: the same for every query sequence no longer than the map's
\* capacity.
C6_FindSound ==
  (found.called /\ Len(found.keys) <= m_capacity) => (~found.aborted /\ FindSound)

C6_Witness ==
  /\ found.called
  /\ ~found.aborted
  /\ Len(found.keys) = 3
  /\ found.valid_query_index = <<0, 2>>
  /\ found.query_result = <<2, 0>>

\* C7 as stated: find returns normally for every query sequence, and on an
\* empty map, capacity 0 included, it returns two empty sequences.
C7_NeverAborts ==
  found.called =>
    /\ ~found.aborted
    /\ m_map = {} => (found.valid_query_index = <<>> /\ found.query_result = <<>>)

\* C7 as amended: find aborts exactly when the query sequence is longer than
\* the capacity; otherwise it returns, keeps at most one result per query and
\* none for an absent key, and returns two empty sequences on an empty map.
C7_SoftMiss ==
  found.called =>
    /\ found.aborted <=> Len(found.keys) > m_capacity
    /\ ~found.aborted =>
         /\ Len(found.valid_query_index) <= Len(found.keys)
         /\ \A i \in DOMAIN found.keys :
              map_find(This, found.keys[i]) = {} => (i - 1) \notin Range(found.valid_query_index)
         /\ m_map = {} => (found.valid_query_index = <<>> /\ found.query_result = <<>>)

C7_Witness ==
  /\ found.called
  /\ ~found.aborted
  /\ Len(found.keys) = 2
  /\ m_map # {}
  /\ found.valid_query_index = <<>>

Finished(op) == call.op = op /\ call.status \in {"returned", "aborted"}

Returned(op) == call.op = op /\ call.status = "returned"

\* The output entries whose offset-k neighbour is in the input map.
Matches(k) ==
  {eo \in out_coordinate_map.m_map :
     map_find(This, region_point(call.kernel, key_data(out_coordinate_map, eo), k)) # {}}

\* C9: when kernel_map has returned, for every offset k the two lists have
\* equal length and no unwritten slot, every pair joins an input row and an
\* output row whose coordinates are offset-k neighbours, and every output
\* entry whose neighbour is in the input map appears exactly once in list k.
C9_KernelMap ==
  Returned("kernel_map") =>
    /\ DOMAIN in_maps = 0..(volume(call.kernel) - 1)
    /\ DOMAIN out_maps = 0..(volume(call.kernel) - 1)
    /\ \A k \in 0..(volume(call.kernel) - 1) :
         /\ Len(in_maps[k]) = Len(out_maps[k])
         /\ \A i \in 1..Len(in_maps[k]) :
              \E ei \in m_map, eo \in out_coordinate_map.m_map :
                /\ ei.second = in_maps[k][i]
                /\ eo.second = out_maps[k][i]
                /\ key_data(This, ei)
                     = region_point(call.kernel, key_data(out_coordinate_map, eo), k)
         /\ \A eo \in Matches(k) :
              Cardinality({i \in 1..Len(out_maps[k]) : out_maps[k][i] = eo.second}) = 1
         /\ Len(out_maps[k]) = Cardinality(Matches(k))

C9_Witness ==
  /\ Returned("kernel_map")
  /\ volume(call.kernel) = 3
  /\ call.threads = 2
  /\ Len(in_maps[0]) = 1
  /\ in_maps[1] = <<1, 0>>
  /\ out_maps[1] = <<1, 0>>
  /\ Len(in_maps[2]) = 1

\* The output map holds the strided counterpart of every input coordinate.
AllCounterparts ==
  \A e \in m_map :
    map_find(out_coordinate_map,
             stride_coordinate(key_data(This, e), call.out_tensor_stride)) # {}

\* C10: whenever the output map holds the strided counterpart of every input
\* coordinate, also when it is as large as the input map, stride_map returns,
\* with exactly one pair per input row that names the row of its counterpart.
C10_StrideMap ==
  (Finished("stride_map") /\ AllCounterparts) =>
    /\ call.status = "returned"
    /\ Len(in_maps[0]) = size(This)
    /\ Len(out_maps[0]) = size(This)
    /\ \A e \in m_map :
         /\ Cardinality({i \in 1..Len(in_maps[0]) : in_maps[0][i] = e.second}) = 1
         /\ \A i \in 1..Len(in_maps[0]) :
              in_maps[0][i] = e.second =>
                \E eo \in out_coordinate_map.m_map :
                  /\ eo.second = out_maps[0][i]
                  /\ key_data(out_coordinate_map, eo)
                       = stride_coordinate(key_data(This, e), call.out_tensor_stride)

\* C11: when the output map lacks the strided counterpart of some input
\* coordinate, stride_map never returns a kernel map: while it runs some worker
\* still has an entry to look at, so the return is out of reach, and the call
\* ends only by the abort, whatever pairs the other workers wrote before.
C11_MissingCounterpartFatal ==
  (call.op = "stride_map" /\ ~AllCounterparts) =>
    /\ call.status # "returned"
    /\ call.status = "aborted" => aborted
    /\ call.status = "running" => \E n \in DOMAIN workers : workers[n].phase # "done"

C11_Witness ==
  /\ call.op = "stride_map"
  /\ call.status = "aborted"
  /\ size(This) > size(out_coordinate_map)
  /\ ~AllCounterparts
  /\ \E i \in DOMAIN in_maps[0] : in_maps[0][i] # Unwritten

Keys(st) == {key_data(st, e) : e \in st.m_map}

RowsOf(st) == {e.second : e \in st.m_map}

\* The image of the coordinates of st under the stride transform by s.
Image(st, s) == {stride_coordinate(c, s) : c \in Keys(st)}

\* What stride promises of the map it returns, given the transform it applies.
StrideResult(s) ==
  /\ Keys(stride_map) = Image(This, s)
  /\ size(stride_map) = Cardinality(Image(This, s))
  /\ RowsOf(stride_map) = 0..(size(stride_map) - 1)
  /\ stride_map.m_capacity = size(This)

\* C12 as stated: stride(new_stride) returns, without hitting the capacity
\* assertion, a map of capacity size() whose coordinates are the image of the
\* input's under the transform by new_stride, with rows 0 .. size()-1; an
\* all-ones factor gives the input's coordinate set and size.
C12_StrideByFactor ==
  (call.op = "stride" /\ Len(call.arg) = m_coordinate_size - 1) =>
    /\ call.status = "returned"
    /\ StrideResult(call.arg)
    /\ call.arg = <<1, 1>> =>
         (Keys(stride_map) = Keys(This) /\ size(stride_map) = size(This))

\* C12 as amended: the same with the transform by the new map's tensor stride,
\* the input's tensor stride multiplied by new_stride; an all-ones factor on a
\* map of all-ones tensor stride gives the input's coordinate set and size.
C12_Stride ==
  (call.op = "stride" /\ Len(call.arg) = m_coordinate_size - 1) =>
    /\ call.status = "returned"
    /\ stride_map.m_tensor_stride = stride_tensor_stride(m_tensor_stride, call.arg)
    /\ StrideResult(stride_map.m_tensor_stride)
    /\ (call.arg = <<1, 1>> /\ m_tensor_stride = <<1, 1>>) =>
         (Keys(stride_map) = Keys(This) /\ size(stride_map) = size(This))

C12_Witness ==
  /\ call.op = "stride"
  /\ call.status = "returned"
  /\ call.arg = <<2, 2>>
  /\ m_tensor_stride = <<1, 1>>
  /\ size(This) = 3
  /\ size(stride_map) = 2
  /\ ~call.trace[2].inserted
  /\ call.trace[3].inserted

\* The neighbours stride_region is to collect: every region point of every
\* coordinate the receiver held when it was called.
Neighbours ==
  {region_point(call.arg, c, k) : c \in Keys(call.input), k \in 0..(volume(call.arg) - 1)}

\* C13: stride_region(kernel) returns, without hitting the capacity assertion,
\* a new map that holds every neighbour of every input coordinate exactly once,
\* with rows 0 .. size()-1 and size at most input size times kernel volume.
C13_StrideRegion ==
  (/\ call.op = "stride_region"
   /\ call.status # "running"
   /\ kernel_coordinate_size(call.arg) = m_coordinate_size) =>
    /\ call.status = "returned"
    /\ Keys(stride_map) = Neighbours
    /\ size(stride_map) = Cardinality(Neighbours)
    /\ RowsOf(stride_map) = 0..(size(stride_map) - 1)
    /\ size(stride_map) <= size(call.input) * volume(call.arg)

\* C14: copy_coordinates writes no destination row twice under any
\* interleaving; when it returns, the row of every entry holds the entry's
\* coordinate and was written exactly once, and every row no entry owns is as
\* it was before the call.
C14_CopyCoordinates ==
  call.op = "copy_coordinates" =>
    /\ \A r \in DOMAIN dst_coordinate : dst_coordinate[r].writes <= 1
    /\ call.status = "returned" =>
         /\ \A e \in m_map : /\ dst_coordinate[e.second].data = key_data(This, e)
                             /\ dst_coordinate[e.second].writes = 1
         /\ \A r \in DOMAIN dst_coordinate :
              r \notin Rows => dst_coordinate[r] = [data |-> Old, writes |-> 0]

C14_Witness ==
  /\ call.op = "copy_coordinates"
  /\ call.status = "returned"
  /\ call.threads = 2
  /\ Rows = {0, 2}
  /\ dst_coordinate[0].data = MkCoord(0, 0, 0)
  /\ dst_coordinate[1].data = Old
  /\ dst_coordinate[2].data = MkCoord(0, 1, 0)

ParallelOps == {"kernel_map", "stride_map"}

\* The workers that hold a reserved slot of offset k they have yet to write.
Holders(k) == {n \in DOMAIN workers : workers[n].phase = "write" /\ workers[n].at[2] = k}

\* The slots (from 0) of offset k that have been written.
Written(k) == {i - 1 : i \in {j \in DOMAIN in_maps[k] : in_maps[k][j] # Unwritten}}

\* The number of pairs the call is to produce for offset k.
Hits(k) == IF call.op = "kernel_map" THEN Cardinality(Matches(k)) ELSE size(This)

\* While a call runs: the slots handed out for offset k are 0 .. num_used[k]-1,
\* each either written or held by exactly one worker, all inside the buffer,
\* whose length is the output map's size for kernel_map and the input map's
\* for stride_map; and when every worker is done num_used[k] is the number of
\* hits and all those slots are written.
Reservations ==
  \A k \in DOMAIN num_used :
    /\ Len(in_maps[k]) = (IF call.op = "kernel_map" THEN size(out_coordinate_map)
                                                    ELSE size(This))
    /\ Len(out_maps[k]) = Len(in_maps[k])
    /\ \A n, m \in Holders(k) :
         workers[n].curr_index_begin = workers[m].curr_index_begin => n = m
    /\ \A n \in Holders(k) :
         /\ workers[n].curr_index_begin < Len(in_maps[k])
         /\ workers[n].curr_index_begin \notin Written(k)
         /\ out_maps[k][workers[n].curr_index_begin + 1] = Unwritten
    /\ Written(k) \cup {workers[n].curr_index_begin : n \in Holders(k)}
         = 0..(num_used[k] - 1)
    /\ (\A n \in DOMAIN workers : workers[n].phase = "done") =>
         (num_used[k] = Hits(k) /\ Written(k) = 0..(num_used[k] - 1))

\* C15: in kernel_map and stride_map, under every interleaving, no two
\* reservations on one counter return the same slot, every slot returned is
\* inside the pre-sized buffer, a written slot is never written again, and when
\* all workers are done num_used[k] is the number of hits of offset k and the
\* slots below it are all written.
C15_AtomicReservation ==
  /\ []((call.op \in ParallelOps /\ call.status = "running") => Reservations)
  /\ [][(call.op \in ParallelOps /\ call.status = "running" /\ call'.status = "running") =>
          \A k \in DOMAIN in_maps : \A i \in DOMAIN in_maps[k] :
            /\ in_maps[k][i] # Unwritten => in_maps'[k][i] = in_maps[k][i]
            /\ out_maps[k][i] # Unwritten => out_maps'[k][i] = out_maps[k][i]]_vars

C15_Witness ==
  /\ call.op = "kernel_map"
  /\ call.status = "running"
  /\ Cardinality(Holders(0)) = 2
  /\ num_used[0] = 2
  /\ Written(0) = {}

\* The chunk [n*stride, n*stride + min(stride, C - n*stride)).
Chunk(C, len, n) ==
  {b \in 0..(C - 1) : n * len <= b /\ b < n * len + Min(len, C - n * len)}

\* C16: for every bucket count C >= 1 and thread count T >= 1, stride is
\* ceil(C / 2T), N is ceil(C / stride), the N chunks the workers walk are the
\* stated intervals, non-empty, pairwise disjoint and with union [0, C), so no
\* bucket is visited twice and, when the scan is over, every bucket was visited
\* exactly once.
C16_ChunkPartition ==
  call.op = "scan" =>
    LET C == call.C
        N0 == 2 * call.threads
    IN /\ call.stride * N0 >= C /\ (call.stride - 1) * N0 < C
       /\ call.N * call.stride >= C /\ (call.N - 1) * call.stride < C
       /\ \A n \in 0..(call.N - 1) :
            /\ chunk_buckets(C, call.stride, n) = Chunk(C, call.stride, n)
            /\ chunk_buckets(C, call.stride, n) # {}
            /\ \A m \in 0..(call.N - 1) :
                 m # n => chunk_buckets(C, call.stride, n)
                            \cap chunk_buckets(C, call.stride, m) = {}
       /\ UNION {chunk_buckets(C, call.stride, n) : n \in 0..(call.N - 1)} = 0..(C - 1)
       /\ \A b \in 0..(C - 1) : table[b] <= 1
       /\ call.status = "returned" => \A b \in 0..(C - 1) : table[b] = 1

C16_Witness ==
  /\ call.op = "scan"
  /\ call.status = "returned"
  /\ call.C = 7
  /\ call.threads = 1
  /\ call.stride = 4
  /\ call.N = 2
  /\ table[6] = 1

\* The pairs the two maps and the kernel determine for offset k.
ExpectedPairs(k) ==
  {<<ei.second, eo.second>> :
     <<ei, eo>> \in {m \in m_map \X out_coordinate_map.m_map :
                      key_data(This, m[1])
                        = region_point(call.kernel, key_data(out_coordinate_map, m[2]), k)}}

\* The pairs the call returned for offset k.
ReturnedPairs(k) == {<<in_maps[k][i], out_maps[k][i]>> : i \in 1..Len(in_maps[k])}

\* C17: whatever the bucket layout, the thread count and the schedule of the
\* workers, the pairs kernel_map returns for offset k are, each once, the
\* pairs the input map, the output map and the kernel determine; only their
\* order within the list depends on the schedule.
C17_ScheduleIndependent ==
  Returned("kernel_map") =>
    \A k \in 0..(volume(call.kernel) - 1) :
      /\ ReturnedPairs(k) = ExpectedPairs(k)
      /\ Len(in_maps[k]) = Cardinality(ExpectedPairs(k))
      /\ Len(out_maps[k]) = Len(in_maps[k])

\* A list whose order is not the order of the buckets.
C17_Witness ==
  /\ Returned("kernel_map")
  /\ call.fast
  /\ call.threads = 2
  /\ out_maps[0] = <<1, 0>>
  /\ \E b1, b2 \in DOMAIN table :
       b1 < b2 /\ table[b1].second = 0 /\ table[b2].second = 1

DerivationOps == {"stride", "stride_region", "kernel_map", "stride_map", "copy_coordinates"}

\* C18: no step of stride, stride_region, kernel_map, stride_map or
\* copy_coordinates changes the receiver's entries, size, capacity or
\* coordinate storage: what such a call inserts goes into the new map only.
C18_ReceiverUnchanged ==
  [][call'.op \in DerivationOps =>
       (m_map' = m_map /\ m_coordinates' = m_coordinates /\ m_capacity' = m_capacity)]_vars

\* The coordinates stride offered to the new map, in the order of the loop.
StridedKeys ==
  [p \in 1..Len(call.order) |->
     stride_coordinate(key_data(This, call.order[p]), stride_map.m_tensor_stride)]

\* After the insertions of keys recorded in trace: every successful insertion
\* left an entry that views the row it was offered, and that row still holds
\* its coordinate; no insertion, failed ones included, copied into a row that
\* an earlier insertion's entry owns; and every entry stems from an insertion.
TraceConsistent(st, keys, trace) ==
  /\ Len(trace) = Len(keys)
  /\ \A p \in DOMAIN trace :
       /\ trace[p].inserted =>
            /\ [ptr |-> trace[p].offered, second |-> trace[p].offered] \in st.m_map
            /\ st.m_coordinates[trace[p].offered] = keys[p]
       /\ \A q \in 1..(p - 1) : trace[q].inserted => trace[q].offered # trace[p].offered
  /\ \A e \in st.m_map :
       /\ e.ptr = e.second
       /\ \E p \in DOMAIN trace : trace[p].inserted /\ trace[p].offered = e.second

AllDone == \A n \in DOMAIN workers : workers[n].phase = "done"

\* C20: a kernel_map call under way returns; the step that cuts the lists to
\* num_used and returns them is taken only when every worker is done, cuts
\* every list to its counter, and after it no counter, slot or worker changes.
C20_FanIn ==
  /\ Running("kernel_map") ~> Returned("kernel_map")
  /\ [][(Running("kernel_map") /\ call'.status = "returned") =>
          /\ AllDone
          /\ num_used' = num_used
          /\ \A k \in DOMAIN num_used :
               /\ Len(in_maps'[k]) = num_used[k]
               /\ Len(out_maps'[k]) = num_used[k]]_vars
  /\ [][Returned("kernel_map") =>
          (num_used' = num_used /\ in_maps' = in_maps /\ out_maps' = out_maps
           /\ workers' = workers)]_vars

C20_Witness ==
  /\ Returned("kernel_map")
  /\ call.threads = 1
  /\ call.N = 2
  /\ AllDone
  /\ volume(call.kernel) = 3
  /\ num_used[1] = 2
  /\ Len(in_maps[1]) = 2

====
